---- MODULE Spec2Model ----
(***************************************************************************)
(* The rate-limited, retrying NetBox client core of netbox-geo-foss:       *)
(*   RateLimiter   (src/src/netbox_geo/netbox/rate_limiter.py)             *)
(*   NetBoxClient._retry_with_backoff (src/src/netbox_geo/netbox/client.py)*)
(*                                                                         *)
(* Units.  The clock is in whole seconds.  The code keeps the balance as a *)
(* float and refills it by elapsed * calls_per_minute / 60.0; the model    *)
(* keeps every balance in sixtieths of a token, so that one second refills *)
(* exactly calls_per_minute sixtieths and all arithmetic is exact.         *)
(***************************************************************************)
EXTENDS Integers, Sequences, FiniteSets, TLC

\* Bounds of the model
\* threads sharing the one RateLimiter
NumThreads == 2
NumUsers == 2
NumFuncs == 3
MaxLimiters == 2
MaxWrapperCalls == 2
\* largest calls_per_minute
MaxCPM == 2
\* largest number of tokens one acquire asks for
MaxReq == 2
\* acquire calls in one behaviour, direct ones and those of the runs
MaxAcquires == 4
MaxClientAcquires == 8
\* largest explicit max_retries argument
MaxRetries == 2
\* the clock's fixed step, and the last reading a fixed step may lead to
MaxTime == 60
TickSeconds == 30

\* self.refill_rate = calls_per_minute / 60.0
SecondsPerMinute == 60
\* NetBoxConfig.max_retries, at its default
config_max_retries == 3

Threads == 1..NumThreads
Users == 1..NumUsers

\* calls_per_minute values for which every wait time is a whole second
CPMs == {c \in 1..MaxCPM : SecondsPerMinute % c = 0}

Min(a, b) == IF a <= b THEN a ELSE b
Max(a, b) == IF a >= b THEN a ELSE b

RECURSIVE SumOver(_, _)
SumOver(f, S) ==
  IF S = {} THEN 0
  ELSE LET x == CHOOSE y \in S : TRUE IN f[x] + SumOver(f, S \ {x})

RECURSIVE SumSeq(_)
SumSeq(q) == IF q = <<>> THEN 0 ELSE Head(q) + SumSeq(Tail(q))

\* n whole tokens, in sixtieths of a token
Unit(n) == n * SecondsPerMinute

NoLock == 0

\* the least max_retries argument considered
MinRetries == 0 - 1

\* max_retries=None
None == MinRetries - 1

VARIABLES
  calls_per_minute,  \* RateLimiter.calls_per_minute
  tokens,            \* RateLimiter.tokens (sixtieths)
  last_refill,       \* RateLimiter.last_refill
  lock,              \* RateLimiter._lock: NoLock or the thread holding it
  now,               \* time.time()
  pc,                \* each thread's position
  req,               \* each thread's arguments of its latest acquire call
  wake,              \* each sleeping thread's earliest wake-up time
  ret,               \* how each thread's latest acquire call ended
  calls,             \* number of direct acquire calls each thread has started
  budget,            \* number of acquire calls made or still to be made by the runs started
  grants,            \* whole tokens granted, by clock reading
  rf,                \* record of the latest _refill
  run,               \* each thread's _retry_with_backoff run
  ctx,               \* each thread's `with limiter:` statement
  op,                \* each thread's call of a NetBoxClient operation
  dec,               \* the limiters made by rate_limit and the calls of the functions it wraps
  rbac               \* RBACManager: the roles in the database, the cached entries, the latest read

\* the state outside the client's limiter and retry executor
others == <<ctx, op, dec, rbac>>

vars == <<calls_per_minute, tokens, last_refill, lock, now, pc, req, wake,
          ret, calls, budget, grants, rf, run, others>>

\* RateLimiter.max_tokens = float(calls_per_minute)
max_tokens == Unit(calls_per_minute)

\* RateLimiter.refill_rate = calls_per_minute / 60.0 tokens per second,
\* that is calls_per_minute sixtieths per second
refill_rate == calls_per_minute

NoRet == [result |-> "none", slept |-> FALSE, retry_after |-> 0,
          found |-> 0, left |-> 0]

NoRun == [active |-> FALSE, arg |-> None, retries |-> 0, attempt |-> 0,
          invoked |-> 0, acquired |-> 0, consumed |-> 0, sleeps |-> <<>>,
          trace |-> <<>>, last_exception |-> "None", outcome |-> "none",
          raised |-> "None", carried |-> "None"]

\* no `with limiter:` statement entered yet
NoCtx == [phase |-> "none", raised |-> FALSE]

\* no client operation called yet
NoOp == [kind |-> "none", valid |-> TRUE, phase |-> 0, fetched |-> "none",
         result |-> "none", phases |-> <<>>]

\* no call of a wrapped function in progress
NoWrapped == [pc |-> "idle", fn |-> 0, wake |-> 0, calls |-> 0, raised |-> FALSE]

\* before any call of rate_limit: no limiter made, no function wrapped
NoDec == [limiters |-> <<>>, wrapped |-> <<>>, th |-> [t \in Threads |-> NoWrapped]]

\* no read made yet
NoRead == [kind |-> "none", user |-> 0, use_cache |-> FALSE, cached |-> FALSE,
           pending |-> FALSE, value |-> {}, truth |-> {}]

\* users without roles, an empty cache
NoRbac == [roles |-> [u \in Users |-> {}], store |-> <<>>, pending |-> {},
           last |-> NoRead]

\* RateLimiter.__init__, NetBoxClient.__init__, for a capacity in S
InitWith(S) ==
  /\ calls_per_minute \in S
  /\ tokens = Unit(calls_per_minute)
  /\ last_refill = 0
  /\ lock = NoLock
  /\ now = 0
  /\ pc = [t \in Threads |-> "idle"]
  /\ req = [t \in Threads |-> [tokens |-> 1, blocking |-> TRUE]]
  /\ wake = [t \in Threads |-> 0]
  /\ ret = [t \in Threads |-> NoRet]
  /\ calls = [t \in Threads |-> 0]
  /\ budget = 0
  /\ grants = <<>>
  /\ rf = [prev |-> Unit(calls_per_minute), spent |-> FALSE, dt |-> 0,
           after |-> Unit(calls_per_minute), at |-> 0, dirty |-> FALSE]
  /\ run = [t \in Threads |-> NoRun]
  /\ ctx = [t \in Threads |-> NoCtx]
  /\ op = [t \in Threads |-> NoOp]
  /\ dec = NoDec
  /\ rbac = NoRbac

\* a limiter of positive capacity
Init == InitWith(CPMs)

\* a limiter of any capacity, 0 included
InitAny == InitWith({0} \cup CPMs)

\* a refill that forgets the balance it found
RefilledFromElapsed(tok, elapsed) == Min(max_tokens, elapsed * refill_rate)

\* _refill without the cap at max_tokens
RefilledUncapped(tok, elapsed) == tok + elapsed * refill_rate

\* _refill: the balance after `elapsed` seconds
Refilled(tok, elapsed) == Min(max_tokens, tok + elapsed * refill_rate)

\* the wait time with the operands of the subtraction swapped
WaitTimeSwapped(n, tok) == (tok - Unit(n)) \div refill_rate

\* (tokens - self.tokens) / self.refill_rate, in seconds
WaitTime(n, tok) == (Unit(n) - tok) \div refill_rate

\* the balance check with > for >=
EnoughStrict(tok, n) == tok > Unit(n)

\* if self.tokens >= tokens
Enough(tok, n) == tok >= Unit(n)

\* a deduction of one token whatever the request
DeductOne(tok, n) == tok - Unit(1)

\* self.tokens -= tokens
Deduct(tok, n) == tok - Unit(n)

Granted(n) ==
  IF now \in DOMAIN grants THEN [grants EXCEPT ![now] = @ + n]
  ELSE grants @@ (now :> n)

\* where a thread goes when its acquire call returns True: back into the
\* retry loop, into the body of the with statement, or to its caller
Returned(t) ==
  IF run[t].active THEN "run_call"
  ELSE IF ctx[t].phase = "enter" THEN "with_body"
  ELSE "idle"

\* where a thread goes when its _retry_with_backoff call is over: back into
\* the client operation that made it, or to its caller
RunEnded(t) == IF op[t].phase > 0 THEN "op_return" ELSE "idle"

\* an entry that does not wait for the lock
CanEnterAlways(l) == TRUE

\* with self._lock: blocks until the lock is free
CanEnter(l) == l = NoLock

\* with self._lock: self._refill()   (the opening of either block of acquire)
\* A caller kept waiting for the lock is one that enters later.
Entered(t) ==
  /\ CanEnter(lock)
  /\ lock' = t
  /\ tokens' = Refilled(tokens, now - last_refill)
  /\ last_refill' = now
  /\ rf' = [prev |-> rf.after, spent |-> rf.dirty, dt |-> now - last_refill,
            after |-> tokens', at |-> now, dirty |-> FALSE]

\* a caller's acquire(n, blocking) enters its first block
Call(t, n, b) ==
  /\ pc[t] = "idle"
  /\ budget + 1 <= MaxAcquires
  /\ budget' = budget + 1
  /\ calls' = [calls EXCEPT ![t] = @ + 1]
  /\ req' = [req EXCEPT ![t] = [tokens |-> n, blocking |-> b]]
  /\ ret' = [ret EXCEPT ![t] = NoRet]
  /\ Entered(t)
  /\ pc' = [pc EXCEPT ![t] = "acq_check"]
  /\ UNCHANGED <<others, calls_per_minute, now, wake, grants, run>>

\* if self.tokens >= tokens: self.tokens -= tokens; return True
Grant(t) ==
  /\ pc[t] = "acq_check"
  /\ lock = t
  /\ Enough(tokens, req[t].tokens)
  /\ tokens' = Deduct(tokens, req[t].tokens)
  /\ ret' = [ret EXCEPT ![t] = [result |-> "True", slept |-> FALSE,
                                retry_after |-> 0, found |-> tokens, left |-> tokens']]
  /\ grants' = Granted(req[t].tokens)
  /\ rf' = [rf EXCEPT !.dirty = TRUE]
  /\ lock' = NoLock
  /\ pc' = [pc EXCEPT ![t] = Returned(t)]
  /\ run' = [run EXCEPT ![t].acquired = @ + (IF run[t].active THEN 1 ELSE 0),
                         ![t].consumed = @ + (IF run[t].active THEN tokens - tokens' ELSE 0)]
  /\ UNCHANGED <<others, calls_per_minute, last_refill, now, req, wake, calls, budget>>

\* a division that yields 0 instead of raising when the rate is 0
DivisionGuarded(n, tok) ==
  [error |-> "None", value |-> IF refill_rate = 0 THEN 0 ELSE WaitTime(n, tok)]

\* (tokens - self.tokens) / self.refill_rate is a float division: it raises
\* ZeroDivisionError when refill_rate is 0.0
Division(n, tok) ==
  IF refill_rate = 0
  THEN [error |-> "ZeroDivisionError", value |-> 0]
  ELSE [error |-> "None", value |-> WaitTime(n, tok)]

\* a sleep inside the with block
LockHeldAsleep(t) == t

\* the with block ends before time.sleep: the lock a sleeper leaves behind
LockWhileAsleep(t) == NoLock

\* a bare raise in the broad except clause
Reraised(r, e) ==
  [r EXCEPT !.active = FALSE, !.outcome = "Unexpected", !.raised = e, !.carried = e]

\* except Exception as e: raise NetBoxAPIError(f"Unexpected error: {e}")
Unexpected(r, e) ==
  [r EXCEPT !.active = FALSE, !.outcome = "Unexpected",
            !.raised = "NetBoxAPIError", !.carried = e]

\* an exception no except clause matches leaves _retry_with_backoff as it is
Propagated(r, e) ==
  [r EXCEPT !.active = FALSE, !.outcome = "Propagated", !.raised = e, !.carried = e]

\* if not blocking: retry_after = ...; raise RateLimitError(..., retry_after)
Reject(t) ==
  /\ pc[t] = "acq_check"
  /\ lock = t
  /\ ~Enough(tokens, req[t].tokens)
  /\ ~req[t].blocking
  /\ LET q == Division(req[t].tokens, tokens) IN
     ret' = [ret EXCEPT ![t] =
               [result |-> IF q.error = "None" THEN "RateLimitError" ELSE q.error,
                slept |-> FALSE, retry_after |-> q.value,
                found |-> tokens, left |-> tokens]]
  /\ lock' = NoLock
  /\ pc' = [pc EXCEPT ![t] = "idle"]
  /\ UNCHANGED <<others, calls_per_minute, tokens, last_refill, now, req, wake, calls, budget, grants, rf, run>>

\* wait_time = ...; leave the lock; time.sleep(wait_time).  An exception
\* of the division leaves acquire at once; inside a run it lands in the
\* loop's broad except clause (client.py:104-106).
Wait(t) ==
  /\ pc[t] = "acq_check"
  /\ lock = t
  /\ ~Enough(tokens, req[t].tokens)
  /\ req[t].blocking
  /\ LET q == Division(req[t].tokens, tokens) IN
     IF q.error = "None"
     THEN /\ wake' = [wake EXCEPT ![t] = now + q.value]
          /\ ret' = [ret EXCEPT ![t] = [NoRet EXCEPT !.slept = TRUE, !.found = tokens]]
          /\ lock' = LockWhileAsleep(t)
          /\ pc' = [pc EXCEPT ![t] = "acq_sleep"]
          /\ UNCHANGED run
     ELSE /\ ret' = [ret EXCEPT ![t] = [NoRet EXCEPT !.result = q.error,
                                                    !.found = tokens, !.left = tokens]]
          /\ lock' = NoLock
          /\ pc' = [pc EXCEPT ![t] = RunEnded(t)]
          /\ run' = IF run[t].active
                    THEN [run EXCEPT ![t] = Unexpected(run[t], q.error)]
                    ELSE run
          /\ UNCHANGED wake
  /\ UNCHANGED <<others, calls_per_minute, tokens, last_refill, now, req, calls, budget, grants, rf>>

\* time.sleep(wait_time) returns once at least wait_time has passed, and the
\* second block is entered
Reenter(t) ==
  /\ pc[t] = "acq_sleep"
  /\ now >= wake[t]
  /\ wake' = [wake EXCEPT ![t] = 0]
  /\ Entered(t)
  /\ pc' = [pc EXCEPT ![t] = "re_deduct"]
  /\ UNCHANGED <<others, calls_per_minute, now, req, ret, calls, budget, grants, run>>

\* second block, after self._refill(): self.tokens -= tokens; return True
DeductAfterSleep(t) ==
  /\ pc[t] = "re_deduct"
  /\ lock = t
  /\ tokens' = Deduct(tokens, req[t].tokens)
  /\ ret' = [ret EXCEPT ![t] = [@ EXCEPT !.result = "True", !.left = tokens']]
  /\ grants' = Granted(req[t].tokens)
  /\ rf' = [rf EXCEPT !.dirty = TRUE]
  /\ lock' = NoLock
  /\ pc' = [pc EXCEPT ![t] = Returned(t)]
  /\ run' = [run EXCEPT ![t].acquired = @ + (IF run[t].active THEN 1 ELSE 0),
                         ![t].consumed = @ + (IF run[t].active THEN tokens - tokens' ELSE 0)]
  /\ UNCHANGED <<others, calls_per_minute, last_refill, now, req, wake, calls, budget>>

(***************************************************************************)
(* NetBoxClient._retry_with_backoff                                        *)
(***************************************************************************)

\* what one call of func does: return, or raise one of these errors
\* ("Exception" stands for any other class derived from Exception)
Outcomes == {"ok", "RequestError", "RequestException", "Exception"}

\* the exceptions that derive from BaseException only (KeyboardInterrupt,
\* SystemExit, GeneratorExit)
BaseExceptions == {"KeyboardInterrupt"}

\* retries = max_retries if max_retries is not None else self.config.max_retries
Retries(arg) == IF arg # None THEN arg ELSE config_max_retries

\* a loop that never runs out (while True)
InRangeAlways(attempt, retries) == TRUE

\* a loop over range(retries + 2)
InRangeOneMore(attempt, retries) == attempt < retries + 2

\* for attempt in range(retries + 1)
InRange(attempt, retries) == attempt < retries + 1

\* a try statement whose broad except clause retries too
HandlerRetryAll(out) ==
  CASE out = "ok" -> "return"
    [] OTHER -> "retry"

\* a try statement that treats a returned value like a transient failure
HandlerNoReturn(out) ==
  CASE out = "Exception" -> "raise"
    [] OTHER -> "retry"

\* what the try statement does with one outcome of func: the return
\* statement, or the except clause the exception lands in
Handler(out) ==
  CASE out = "ok" -> "return"
    [] out = "RequestError" -> "retry"
    [] out = "RequestException" -> "retry"
    [] out \in BaseExceptions -> "propagate"
    [] OTHER -> "raise"

\* a loop that never sleeps between attempts
ShouldSleepNever(attempt, retries) == FALSE

\* if attempt < retries: (sleep before the next attempt)
ShouldSleep(attempt, retries) == attempt < retries

\* a backoff that is longer while the bucket is empty
BackoffByBalance(attempt) == IF tokens < Unit(1) THEN 2^attempt + 1 ELSE 2^attempt

\* a linear backoff
BackoffLinear(attempt) == attempt + 1

\* wait_time = 2**attempt
Backoff(attempt) == 2^attempt

\* an acquire of two permits per attempt
AcquireTwo == [tokens |-> 2, blocking |-> TRUE]

\* an acquire that does not block
AcquireNonBlocking == [tokens |-> 1, blocking |-> FALSE]

\* self.rate_limiter.acquire(): the arguments are acquire's defaults,
\* tokens=1 and blocking=True
AcquireDefaults == [tokens |-> 1, blocking |-> TRUE]

\* raise NetBoxAPIError(f"Failed after {retries} retries: {last_exception}")
Exhausted(r) ==
  [r EXCEPT !.active = FALSE, !.outcome = "Exhausted",
            !.raised = "NetBoxAPIError", !.carried = r.last_exception]

\* _retry_with_backoff(func, max_retries=arg) is entered.  The loop's first
\* statement is self.rate_limiter.acquire(); when range(retries + 1) is
\* empty the loop body never runs and the raise after the loop is reached
RunBegin(t, arg) ==
  IF InRange(0, Retries(arg))
  THEN /\ run' = [run EXCEPT ![t] = [NoRun EXCEPT !.active = TRUE, !.arg = arg,
                                                   !.retries = Retries(arg)]]
       /\ req' = [req EXCEPT ![t] = AcquireDefaults]
       /\ ret' = [ret EXCEPT ![t] = NoRet]
       /\ Entered(t)
       /\ pc' = [pc EXCEPT ![t] = "acq_check"]
  ELSE /\ run' = [run EXCEPT ![t] = Exhausted([NoRun EXCEPT !.arg = arg,
                                                            !.retries = Retries(arg)])]
       /\ pc' = [pc EXCEPT ![t] = RunEnded(t)]
       /\ UNCHANGED <<tokens, last_refill, lock, rf, req, ret>>

\* a caller starts _retry_with_backoff(func, max_retries=arg)
RunStart(t, arg) ==
  /\ pc[t] = "idle"
  /\ budget + Max(Retries(arg) + 1, 0) <= MaxAcquires
  /\ budget' = budget + Max(Retries(arg) + 1, 0)
  /\ RunBegin(t, arg)
  /\ UNCHANGED <<others, calls_per_minute, now, wake, calls, grants>>

\* an assignment that keeps the first exception
RememberFirst(prev, e) == IF prev = "None" THEN e ELSE prev

\* last_exception = e
Remember(prev, e) == e

\* return func(*args, **kwargs) and the except clauses
Invoke(t, out) ==
  /\ pc[t] = "run_call"
  /\ LET r == [run[t] EXCEPT !.invoked = @ + 1, !.trace = Append(@, out)] IN
     IF Handler(out) = "return"
     THEN /\ run' = [run EXCEPT ![t] = [r EXCEPT !.active = FALSE, !.outcome = "Success"]]
          /\ pc' = [pc EXCEPT ![t] = RunEnded(t)]
          /\ UNCHANGED wake
     ELSE IF Handler(out) = "raise"
     THEN /\ run' = [run EXCEPT ![t] = Unexpected(r, out)]
          /\ pc' = [pc EXCEPT ![t] = RunEnded(t)]
          /\ UNCHANGED wake
     ELSE IF Handler(out) = "propagate"
     THEN /\ run' = [run EXCEPT ![t] = Propagated(r, out)]
          /\ pc' = [pc EXCEPT ![t] = RunEnded(t)]
          /\ UNCHANGED wake
     ELSE LET e == [r EXCEPT !.last_exception = Remember(@, out)] IN
          IF ShouldSleep(e.attempt, e.retries)
          THEN /\ run' = [run EXCEPT ![t] = [e EXCEPT !.sleeps = Append(@, Backoff(e.attempt))]]
               /\ wake' = [wake EXCEPT ![t] = now + Backoff(e.attempt)]
               /\ pc' = [pc EXCEPT ![t] = "run_backoff"]
          ELSE IF InRange(e.attempt + 1, e.retries)
          THEN /\ run' = [run EXCEPT ![t] = e]
               /\ wake' = [wake EXCEPT ![t] = now]
               /\ pc' = [pc EXCEPT ![t] = "run_backoff"]
          ELSE /\ run' = [run EXCEPT ![t] = Exhausted(e)]
               /\ pc' = [pc EXCEPT ![t] = RunEnded(t)]
               /\ UNCHANGED wake
  /\ UNCHANGED <<others, calls_per_minute, tokens, last_refill, lock, now, req, ret, calls, budget, grants, rf>>

\* time.sleep(wait_time) returns; the next iteration calls acquire()
NextAttempt(t) ==
  /\ pc[t] = "run_backoff"
  /\ now >= wake[t]
  /\ InRange(run[t].attempt + 1, run[t].retries)
  /\ wake' = [wake EXCEPT ![t] = 0]
  /\ run' = [run EXCEPT ![t].attempt = @ + 1]
  /\ req' = [req EXCEPT ![t] = AcquireDefaults]
  /\ ret' = [ret EXCEPT ![t] = NoRet]
  /\ Entered(t)
  /\ pc' = [pc EXCEPT ![t] = "acq_check"]
  /\ UNCHANGED <<others, calls_per_minute, now, calls, budget, grants>>

Sleeping(t) == pc[t] \in {"acq_sleep", "run_backoff"}

\* The clock moves on by a fixed step.  A lock-protected section reads the
\* clock once, on entry, so time that passes inside one is time that passes
\* right after it: the clock moves only while the lock is free.
Tick ==
  /\ lock = NoLock
  /\ now + TickSeconds <= MaxTime
  /\ now' = now + TickSeconds
  /\ UNCHANGED <<others, calls_per_minute, tokens, last_refill, lock, pc, req, wake, ret, calls, budget, grants, rf, run>>

\* the clock moves on to the moment a sleeper may wake
Elapse(t) ==
  /\ lock = NoLock
  /\ Sleeping(t)
  /\ wake[t] > now
  /\ now' = wake[t]
  /\ UNCHANGED <<others, calls_per_minute, tokens, last_refill, lock, pc, req, wake, ret, calls, budget, grants, rf, run>>

Next ==
  \/ \E t \in Threads, n \in 1..MaxReq, b \in BOOLEAN : Call(t, n, b)
  \/ \E t \in Threads, arg \in {None} \cup (0..MaxRetries) : RunStart(t, arg)
  \/ \E t \in Threads : Grant(t)
  \/ \E t \in Threads : Reject(t)
  \/ \E t \in Threads : Wait(t)
  \/ \E t \in Threads : Reenter(t)
  \/ \E t \in Threads : DeductAfterSleep(t)
  \/ \E t \in Threads, out \in Outcomes : Invoke(t, out)
  \/ \E t \in Threads : NextAttempt(t)
  \/ \E t \in Threads : Elapse(t)
  \/ Tick

Spec == Init /\ [][Next]_vars

(***************************************************************************)
(* Properties                                                              *)
(***************************************************************************)

\* C1: between lock-protected sections the balance satisfies
\* 0 <= tokens <= max_tokens, for every sequence of acquire calls.
C1_TokensInBounds ==
  lock = NoLock => (0 <= tokens /\ tokens <= max_tokens)

\* the threads that made exactly one direct call, a blocking acquire(1)
C2_Callers ==
  {t \in Threads : calls[t] = 1 /\ run[t] = NoRun
                   /\ req[t] = [tokens |-> 1, blocking |-> TRUE]}

\* N threads issue one blocking acquire(1) each against a fresh limiter of
\* capacity N, nothing else is called and no time passes
C2_Scenario ==
  /\ now = 0
  /\ Cardinality(C2_Callers) = calls_per_minute
  /\ \A t \in Threads \ C2_Callers : calls[t] = 0 /\ run[t] = NoRun

C2_Returned == {t \in C2_Callers : pc[t] = "idle"}

\* C2: N threads each issuing one blocking acquire(1) against a fresh
\* limiter of capacity N, with no time passing: no call sleeps, every call
\* returns True, each return deducts exactly one token, and once all have
\* returned the balance is 0 with exactly N tokens granted.
C2_NoLostGrant ==
  C2_Scenario =>
    /\ \A t \in C2_Callers : pc[t] \in {"idle", "acq_check"}
    /\ \A t \in C2_Returned : ret[t].result = "True" /\ ~ret[t].slept
    /\ tokens = Unit(calls_per_minute - Cardinality(C2_Returned))
    /\ SumOver(grants, DOMAIN grants) = Cardinality(C2_Returned)
    /\ (C2_Returned = C2_Callers => tokens = 0)

C2_Witness ==
  /\ C2_Scenario
  /\ calls_per_minute >= 2
  /\ C2_Returned = C2_Callers
  /\ tokens = 0

(***************************************************************************)
(* The retry executor                                                      *)
(***************************************************************************)

\* the threads that have started a run
Runners == {t \in Threads : run[t] # NoRun}

\* the retry ceiling of a run: the max_retries argument, or
\* config.max_retries when the argument is None
C3_Ceiling(t) == IF run[t].arg = None THEN config_max_retries ELSE run[t].arg

\* C3: one call of _retry_with_backoff with retry ceiling R invokes the
\* operation at most R + 1 times, whatever the operation's outcomes.
C3_AttemptsBounded ==
  \A t \in Runners : run[t].invoked <= C3_Ceiling(t) + 1

C3_Witness ==
  \E t \in Runners :
    /\ C3_Ceiling(t) >= 1
    /\ run[t].invoked = C3_Ceiling(t) + 1
    /\ ~run[t].active

TransientErrors == {"RequestError", "RequestException"}

AllTransient(q) == \A i \in 1..Len(q) : q[i] \in TransientErrors

\* C4: a run whose operation fails transiently on every attempt makes
\* exactly R + 1 attempts, and the sleep between attempt k and attempt k+1
\* (k = 0..R-1) is 2^k seconds; for R = 3: 4 attempts, sleeps 1, 2, 4.
C4_BackoffSequence ==
  \A t \in Runners :
    /\ \A i \in 1..Len(run[t].sleeps) : run[t].sleeps[i] = 2^(i - 1)
    /\ (AllTransient(run[t].trace) /\ ~run[t].active) =>
         /\ run[t].outcome = "Exhausted"
         /\ run[t].invoked = C3_Ceiling(t) + 1
         /\ Len(run[t].trace) = C3_Ceiling(t) + 1
         /\ Len(run[t].sleeps) = C3_Ceiling(t)
    /\ (AllTransient(run[t].trace) /\ ~run[t].active /\ C3_Ceiling(t) = 3) =>
         /\ run[t].invoked = 4
         /\ run[t].sleeps = <<1, 2, 4>>
         /\ SumSeq(run[t].sleeps) = 7

C4_Witness ==
  \E t \in Runners :
    /\ C3_Ceiling(t) = 3
    /\ AllTransient(run[t].trace)
    /\ ~run[t].active
    /\ run[t].sleeps = <<1, 2, 4>>

\* the run of t is over: it is at none of the run's statements
RunOver(t) ==
  /\ ~run[t].active
  /\ pc[t] \notin {"run_call", "run_backoff"}

\* C5: a permanent (non-transient) error on some attempt ends the run at
\* that attempt with a permanent failure: no sleep follows, no further
\* permit is acquired and the operation is not invoked again; on attempt 0
\* that is exactly 1 attempt, whatever the retry ceiling.
C5_PermanentShortCircuit ==
  \A t \in Runners : \A i \in 1..Len(run[t].trace) :
    (run[t].trace[i] \notin TransientErrors \cup {"ok"}) =>
      /\ i = Len(run[t].trace)
      /\ run[t].outcome = "Unexpected"
      /\ RunOver(t)
      /\ run[t].invoked = i
      /\ run[t].acquired = i
      /\ Len(run[t].sleeps) = i - 1

C5_Witness ==
  \E t \in Runners :
    /\ C3_Ceiling(t) = 3
    /\ run[t].trace = <<"Exception">>
    /\ run[t].outcome = "Unexpected"
    /\ run[t].invoked = 1

\* C6: a success on attempt k ends the run with that attempt's value: there
\* are exactly k + 1 attempts and k sleeps and nothing follows the success;
\* a transient failure then a success gives 2 attempts and 1 sleep.
C6_SuccessShortCircuit ==
  \A t \in Runners : \A i \in 1..Len(run[t].trace) :
    (run[t].trace[i] = "ok") =>
      /\ i = Len(run[t].trace)
      /\ run[t].outcome = "Success"
      /\ RunOver(t)
      /\ run[t].invoked = i
      /\ run[t].acquired = i
      /\ Len(run[t].sleeps) = i - 1

C6_Witness ==
  \E t \in Runners :
    /\ Len(run[t].trace) = 2
    /\ run[t].trace[1] \in TransientErrors
    /\ run[t].trace[2] = "ok"
    /\ run[t].outcome = "Success"
    /\ run[t].sleeps = <<1>>

(***************************************************************************)
(* The token bucket                                                        *)
(***************************************************************************)

\* C7: a non-blocking acquire(n) that finds tokens < n after refilling
\* fails with RateLimitError, retry_after = (n - tokens) / refill_rate > 0,
\* and never sleeps; with capacity 1 a first non-blocking acquire(1)
\* succeeds and a second one with zero elapsed time fails this way.
C7_NonBlockingFastFail ==
  \A t \in Threads :
    /\ ret[t].result = "RateLimitError" =>
         /\ ~req[t].blocking
         /\ ret[t].found < Unit(req[t].tokens)
         /\ ret[t].retry_after * calls_per_minute = Unit(req[t].tokens) - ret[t].found
         /\ ret[t].retry_after > 0
         /\ ~ret[t].slept
         /\ ret[t].left = ret[t].found
    /\ ~req[t].blocking =>
         /\ pc[t] \notin {"acq_sleep", "re_deduct"}
         /\ ~ret[t].slept
    /\ (pc[t] = "idle" /\ calls[t] > 0 /\ ~req[t].blocking) =>
         (ret[t].found < Unit(req[t].tokens) <=> ret[t].result = "RateLimitError")
    /\ (calls_per_minute = 1 /\ now = 0 /\ pc[t] = "idle" /\ calls[t] > 0
          /\ req[t] = [tokens |-> 1, blocking |-> FALSE]) =>
         IF ret[t].found = max_tokens
         THEN ret[t].result = "True"
         ELSE ret[t].result = "RateLimitError" /\ ret[t].retry_after > 0

C7_Witness ==
  \E t \in Threads :
    /\ calls_per_minute = 1
    /\ now = 0
    /\ calls[t] = 2
    /\ budget = 2
    /\ SumOver(grants, DOMAIN grants) = 1
    /\ req[t] = [tokens |-> 1, blocking |-> FALSE]
    /\ ret[t].result = "RateLimitError"
    /\ ret[t].retry_after = SecondsPerMinute

\* C8: an acquire(n) that finds tokens >= n after refilling deducts exactly
\* n, returns True and does not sleep, blocking or not; a fresh limiter is
\* full (tokens = max_tokens = calls_per_minute), so its first acquire(n)
\* with n <= calls_per_minute takes this path.
C8_FastPath ==
  /\ budget = 0 => (tokens = max_tokens /\ tokens = Unit(calls_per_minute))
  /\ \A t \in Threads :
       /\ (ret[t].result = "True" /\ ~ret[t].slept) =>
            /\ ret[t].found >= Unit(req[t].tokens)
            /\ ret[t].left = ret[t].found - Unit(req[t].tokens)
       /\ (ret[t].slept \/ ret[t].result = "RateLimitError") =>
            ret[t].found < Unit(req[t].tokens)
       /\ (budget = 1 /\ (calls[t] = 1 \/ run[t] # NoRun) /\ pc[t] # "acq_check"
             /\ req[t].tokens <= calls_per_minute) =>
            /\ ret[t].result = "True"
            /\ ~ret[t].slept
            /\ ret[t].left = Unit(calls_per_minute - req[t].tokens)

C8_Witness ==
  \E t \in Threads, u \in Threads :
    /\ ret[t].result = "True" /\ ~ret[t].slept
    /\ req[t] = [tokens |-> 2, blocking |-> TRUE]
    /\ ret[u].result = "True" /\ ~ret[u].slept
    /\ req[u] = [tokens |-> 1, blocking |-> FALSE]
    /\ ret[u].found < max_tokens

\* the balance a refill of dt seconds makes of the balance tok: in
\* sixtieths, dt * calls_per_minute / 60 tokens are dt * calls_per_minute
C9_Expected(tok, dt) ==
  IF tok + dt * calls_per_minute > SecondsPerMinute * calls_per_minute
  THEN SecondsPerMinute * calls_per_minute
  ELSE tok + dt * calls_per_minute

\* C9: if no acquire succeeds between two refills dt seconds apart, the
\* second sets tokens to min(max_tokens, tokens + dt * refill_rate) and
\* last_refill to the clock reading; below capacity and with dt > 0 the
\* balance strictly increases.
C9_RefillExact ==
  /\ last_refill = rf.at
  /\ rf.at <= now
  /\ ~rf.spent =>
       /\ rf.after = C9_Expected(rf.prev, rf.dt)
       /\ (rf.prev < max_tokens /\ rf.dt > 0) => rf.after > rf.prev
  /\ (lock # NoLock) => (last_refill = now /\ tokens = rf.after)

C9_Witness ==
  /\ ~rf.spent
  /\ rf.dt > 0
  /\ rf.prev < max_tokens
  /\ rf.after < max_tokens
  /\ rf.after = rf.prev + rf.dt * calls_per_minute

\* C10: in any interval of 60 seconds the number of permits granted to all
\* callers together is at most calls_per_minute.
C10_WindowLimit ==
  \A s \in DOMAIN grants :
    SumOver(grants, {u \in DOMAIN grants : s <= u /\ u < s + SecondsPerMinute})
      <= calls_per_minute

(***************************************************************************)
(* Permits and runs                                                        *)
(***************************************************************************)

\* the threads that are inside acquire()
Acquiring(t) == pc[t] \in {"acq_check", "acq_sleep", "re_deduct"}

\* C11: within one run every invocation of the operation is immediately
\* preceded by one successful blocking acquire of exactly one permit, on the
\* first attempt and on every retry alike; permits are never given back, so
\* a run that made a attempts has consumed exactly a tokens.
C11_OnePermitPerAttempt ==
  \A t \in Runners :
    /\ run[t].acquired = run[t].invoked + (IF pc[t] = "run_call" THEN 1 ELSE 0)
    /\ run[t].consumed = Unit(run[t].acquired)
    /\ run[t].invoked = Len(run[t].trace)
    /\ (run[t].active \/ pc[t] = "run_call") => req[t] = [tokens |-> 1, blocking |-> TRUE]
    /\ pc[t] = "run_call" =>
         /\ ret[t].result = "True"
         /\ run[t].acquired = run[t].attempt + 1
    /\ (run[t].active /\ Acquiring(t)) => run[t].invoked = run[t].attempt
    /\ RunOver(t) => run[t].consumed = Unit(Len(run[t].trace))

\* a run over after three attempts, the second of which had to sleep for
\* its permit
C11_Witness ==
  \E t \in Threads :
    /\ RunOver(t)
    /\ run[t].invoked = 3
    /\ run[t].consumed = Unit(3)
    /\ ret[t].slept

(***************************************************************************)
(* Progress of a blocking acquire                                          *)
(***************************************************************************)

\* the acquire calls of a behaviour checked for progress
LiveAcquires == 3

\* Next, with at most LiveAcquires calls of acquire
NextLive ==
  \/ \E t \in Threads, n \in 1..MaxReq, b \in BOOLEAN :
       Call(t, n, b) /\ budget' <= LiveAcquires
  \/ \E t \in Threads, arg \in {None} \cup (0..MaxRetries) :
       RunStart(t, arg) /\ budget' <= LiveAcquires
  \/ \E t \in Threads : Grant(t)
  \/ \E t \in Threads : Reject(t)
  \/ \E t \in Threads : Wait(t)
  \/ \E t \in Threads : Reenter(t)
  \/ \E t \in Threads : DeductAfterSleep(t)
  \/ \E t \in Threads, out \in Outcomes : Invoke(t, out)
  \/ \E t \in Threads : NextAttempt(t)
  \/ \E t \in Threads : Elapse(t)
  \/ Tick

\* A thread that can take its next step inside acquire takes it, and the
\* clock reaches the moment a sleeper waits for.
Fairness ==
  \A t \in Threads :
    /\ WF_vars(Grant(t))
    /\ WF_vars(Reject(t))
    /\ WF_vars(Wait(t))
    /\ WF_vars(Reenter(t))
    /\ WF_vars(DeductAfterSleep(t))
    /\ WF_vars(Elapse(t))

SpecLive == Init /\ [][NextLive]_vars /\ Fairness

\* C12: a blocking acquire(1) on a limiter of capacity >= 1 always
\* eventually returns True, whatever the other callers do, as long as the
\* clock advances; it never raises RateLimitError, and it never makes the
\* enclosing run fail or spend a retry.
C12_BlockingAcquireReturns ==
  /\ \A t \in Threads :
       (Acquiring(t) /\ req[t] = [tokens |-> 1, blocking |-> TRUE])
         ~> (~Acquiring(t) /\ ret[t].result = "True")
  /\ [](\A t \in Threads :
          req[t].blocking => ret[t].result \in {"none", "True"})
  /\ [](\A t \in Runners :
          /\ run[t].active => pc[t] # "idle"
          /\ (run[t].active /\ Acquiring(t)) =>
               (run[t].outcome = "none" /\ run[t].invoked = run[t].attempt)
          /\ run[t].outcome = "Unexpected" =>
               /\ run[t].invoked > 0
               /\ run[t].trace[run[t].invoked] \notin {"ok"} \cup TransientErrors
               /\ run[t].carried = run[t].trace[run[t].invoked])

\* a blocking acquire(1) has returned True after a sleep, while the other
\* thread had been granted a permit too
C12_Witness ==
  \E t \in Threads : \E u \in Threads \ {t} :
    /\ req[t] = [tokens |-> 1, blocking |-> TRUE]
    /\ ret[t].slept
    /\ ret[t].result = "True"
    /\ pc[t] \in {"idle", "run_call"}
    /\ ret[u].result = "True"

(***************************************************************************)
(* Requests the bucket cannot cover                                        *)
(***************************************************************************)

\* C13: an acquire(n) with n greater than the capacity never succeeds, in
\* blocking and in non-blocking mode alike: it never returns True and never
\* deducts tokens, and ends in an error.
C13_OverCapacityNeverGranted ==
  \A t \in Threads :
    (calls[t] > 0 /\ Unit(req[t].tokens) > max_tokens) =>
      /\ ret[t].result # "True"
      /\ pc[t] = "idle" => (ret[t].result = "RateLimitError" /\ ret[t].left = ret[t].found)

\* Next, and an operation that may also raise an exception that does not
\* derive from Exception
NextAny ==
  \/ Next
  \/ \E t \in Threads, out \in BaseExceptions : Invoke(t, out)

\* the limiter of any capacity, 0 included, and an operation that may raise
\* any exception
SpecAny == InitAny /\ [][NextAny]_vars

\* C14: a limiter of capacity 0 fails fast: every acquire ends at once in an
\* error, without sleeping or blocking, and no permit is ever granted.
C14_ZeroCapacityFailsFast ==
  calls_per_minute = 0 =>
    /\ tokens = 0
    /\ grants = <<>>
    /\ \A t \in Threads :
         /\ pc[t] \in {"idle", "acq_check"}
         /\ wake[t] = 0
         /\ ret[t].result \in {"none", "ZeroDivisionError"}
         /\ ~ret[t].slept
         /\ (pc[t] = "idle" /\ (calls[t] > 0 \/ run[t] # NoRun)) =>
              ret[t].result = "ZeroDivisionError"
         /\ run[t] # NoRun =>
              /\ run[t].invoked = 0
              /\ run[t].acquired = 0
              /\ pc[t] = "idle" =>
                   /\ run[t].outcome = "Unexpected"
                   /\ run[t].raised = "NetBoxAPIError"
                   /\ run[t].carried = "ZeroDivisionError"

\* on a limiter of capacity 0 a run and a non-blocking acquire have both
\* ended in the error
C14_Witness ==
  /\ calls_per_minute = 0
  /\ \E t \in Threads : \E u \in Threads \ {t} :
       /\ run[t].outcome = "Unexpected"
       /\ ret[t].result = "ZeroDivisionError"
       /\ calls[u] > 0
       /\ ~req[u].blocking
       /\ pc[u] = "idle"
       /\ ret[u].result = "ZeroDivisionError"

(***************************************************************************)
(* How a run ends                                                          *)
(***************************************************************************)

\* C15: when all R+1 attempts fail with a transient error the run ends in
\* the retries-exhausted NetBoxAPIError, which carries the error of the
\* final attempt, not an earlier one; no backoff sleep follows the final
\* failed attempt.
C15_ExhaustedCarriesLast ==
  \A t \in Runners :
    (Len(run[t].trace) = run[t].retries + 1 /\ AllTransient(run[t].trace)) =>
      /\ RunOver(t)
      /\ run[t].outcome = "Exhausted"
      /\ run[t].raised = "NetBoxAPIError"
      /\ run[t].carried = run[t].trace[run[t].retries + 1]
      /\ Len(run[t].sleeps) = run[t].retries
      /\ run[t].attempt = run[t].retries

\* a run of three attempts that failed with RequestError twice and with
\* RequestException at the end
C15_Witness ==
  \E t \in Threads :
    /\ RunOver(t)
    /\ run[t].outcome = "Exhausted"
    /\ run[t].trace = <<"RequestError", "RequestError", "RequestException">>
    /\ run[t].carried = "RequestException"

\* the last outcome of the operation in a run, "None" before the first
LastOutcome(r) == IF r.trace = <<>> THEN "None" ELSE r.trace[Len(r.trace)]

\* what the caller of a finished run gets for the operation's last outcome:
\* a normal return only for a returned value, and otherwise the exception
\* Wrapped(e) says is raised for the exception e of the operation or of the
\* permit acquisition
C16_Surfaces(t, Wrapped(_)) ==
  /\ run[t].active => (run[t].raised = "None" /\ run[t].outcome = "none")
  /\ \A i \in 1..(Len(run[t].trace) - 1) : run[t].trace[i] \in TransientErrors
  /\ RunOver(t) =>
       /\ run[t].outcome # "none"
       /\ run[t].outcome = "Success" <=> LastOutcome(run[t]) = "ok"
       /\ run[t].outcome = "Success" <=> run[t].raised = "None"
       /\ LastOutcome(run[t]) \notin {"ok", "None"} =>
            /\ run[t].raised = Wrapped(LastOutcome(run[t]))
            /\ run[t].carried = LastOutcome(run[t])
       /\ LastOutcome(run[t]) = "None" =>
            /\ calls_per_minute = 0
            /\ run[t].raised = Wrapped("ZeroDivisionError")
            /\ run[t].carried = "ZeroDivisionError"

C16_AlwaysTyped(e) == "NetBoxAPIError"

C16_TypedUnlessBase(e) == IF e \in BaseExceptions THEN e ELSE "NetBoxAPIError"

\* C16: every exception raised inside the retry loop, by the operation or
\* by the permit acquisition, reaches the caller as NetBoxAPIError: no other
\* exception type leaves _retry_with_backoff, and no failure is turned into
\* a normal return.
C16_OnlyNetBoxAPIError ==
  \A t \in Runners : C16_Surfaces(t, C16_AlwaysTyped)

\* C16, amended: every exception derived from Exception that is raised
\* inside the retry loop, by the operation or by the permit acquisition,
\* reaches the caller as NetBoxAPIError, and no failure is turned into a
\* normal return; an exception that derives from BaseException only
\* (KeyboardInterrupt, SystemExit) leaves _retry_with_backoff unchanged.
C16_ExceptionsWrapped ==
  \A t \in Runners : C16_Surfaces(t, C16_TypedUnlessBase)

\* a run whose second attempt raised an exception that is no transient
\* error has ended in NetBoxAPIError, and another run has ended in the
\* KeyboardInterrupt its operation raised
C16_Witness ==
  \E t \in Threads : \E u \in Threads \ {t} :
    /\ RunOver(t)
    /\ run[t].trace = <<"RequestException", "Exception">>
    /\ run[t].raised = "NetBoxAPIError"
    /\ run[t].carried = "Exception"
    /\ RunOver(u)
    /\ run[u].trace = <<"KeyboardInterrupt">>
    /\ run[u].raised = "KeyboardInterrupt"

\* one step of thread t, seen from its run: r is the run before the step
\* and q the run after it
C17_Step(t, r, q) ==
  \* Pending -> Attempting(0) is the only entry
  /\ (~r.active /\ q.active) =>
       /\ pc[t] = "idle"
       /\ pc'[t] = "acq_check"
       /\ q.attempt = 0
       /\ q.invoked = 0
       /\ q.trace = <<>>
       /\ q.sleeps = <<>>
       /\ q.outcome = "none"
  \* Attempting(k) -> Attempting(k+1) only through a backoff after a
  \* transient failure
  /\ (r.active /\ q.attempt # r.attempt) =>
       /\ q.active
       /\ q.attempt = r.attempt + 1
       /\ pc[t] = "run_backoff"
       /\ LastOutcome(r) \in TransientErrors
       /\ r.invoked = r.attempt + 1
       /\ Len(r.sleeps) = r.attempt + 1
       /\ now >= wake[t]
       /\ q.trace = r.trace
  /\ (r.active /\ q.active) => (q.retries = r.retries /\ q.arg = r.arg)
  \* a run ends in exactly one of the three terminal states
  /\ (r.active /\ ~q.active) =>
       /\ pc[t] = "run_call"
       /\ pc'[t] = "idle"
       /\ q.attempt = r.attempt
       /\ q.outcome \in {"Success", "Unexpected", "Exhausted"}
       /\ q.outcome = "Success" <=> LastOutcome(q) = "ok"
       /\ q.outcome = "Exhausted" <=>
            (LastOutcome(q) \in TransientErrors /\ q.attempt = q.retries)
       /\ q.outcome = "Unexpected" <=> LastOutcome(q) \notin {"ok"} \cup TransientErrors
  \* the terminal states are terminal: the run does nothing more
  /\ (~r.active /\ r # NoRun) =>
       /\ r.outcome \in {"Success", "Unexpected", "Exhausted"}
       /\ pc[t] \notin {"run_call", "run_backoff"}
       /\ q = r \/ (q.active /\ q.attempt = 0 /\ q.trace = <<>>)
       /\ q = r => pc'[t] \notin {"run_call", "run_backoff"}

\* C17: a run follows the state machine Pending -> Attempting(0) -> ...:
\* attempt 0 is the only entry, the attempt index only increases, by exactly
\* 1 and only through a backoff after a transient failure, and Success,
\* PermanentFailure and ExhaustedFailure are terminal: a run ends in exactly
\* one of them and then makes no further acquire, invocation or sleep.
C17_StateMachine ==
  [][\A t \in Threads : C17_Step(t, run[t], run'[t])]_vars

\* a run that went through attempts 0, 1 and 2 and ended in Success
C17_Witness ==
  \E t \in Threads :
    /\ RunOver(t)
    /\ run[t].attempt = 2
    /\ Len(run[t].sleeps) = 2
    /\ run[t].outcome = "Success"

(***************************************************************************)
(* The second block of a blocking acquire                                  *)
(***************************************************************************)

\* C18: a blocking acquire that returns True after sleeping has verified the
\* balance again: at the moment it deducts, the refilled balance is at least
\* the requested amount, also when other callers acquired tokens during its
\* sleep.
C18_RecheckedAfterSleep ==
  \A t \in Threads :
    /\ pc[t] = "re_deduct" =>
         (Unit(req[t].tokens) <= max_tokens => Enough(tokens, req[t].tokens))
    /\ (ret[t].slept /\ ret[t].result = "True" /\ Unit(req[t].tokens) <= max_tokens) =>
         ret[t].left >= 0

(***************************************************************************)
(* The lock                                                                *)
(***************************************************************************)

\* the threads inside a with self._lock block
InSection(t) == pc[t] \in {"acq_check", "re_deduct"}

\* the tokens granted so far, in whole tokens
C19_GrantedTotal(g) == SumOver(g, DOMAIN g)

\* the holder of the lock is the one thread inside a block, and the balance
\* and the refill time it works on are the ones its own refill left
C19_Exclusive ==
  /\ \A t \in Threads : InSection(t) <=> lock = t
  /\ lock # NoLock => (tokens = rf.after /\ last_refill = rf.at)

\* every step accounts for the balance: it is written only by the thread
\* that takes or holds the lock, a block opens with the refill of the
\* current balance, and what a block deducts is what it grants
C19_Accounted ==
  /\ (tokens' # tokens \/ last_refill' # last_refill) =>
       \E t \in Threads :
         /\ (lock = t \/ (lock = NoLock /\ lock' = t))
         /\ \A u \in Threads \ {t} : pc'[u] = pc[u] /\ ret'[u] = ret[u]
  /\ (lock = NoLock /\ lock' # NoLock) =>
       /\ tokens' = Min(max_tokens, tokens + (now - last_refill) * refill_rate)
       /\ last_refill' = now
       /\ grants' = grants
  /\ lock # NoLock =>
       /\ lock' \in {lock, NoLock}
       /\ last_refill' = last_refill
       /\ tokens' = tokens - Unit(C19_GrantedTotal(grants') - C19_GrantedTotal(grants))
       /\ lock' = lock => (tokens' = tokens /\ pc'[lock] = pc[lock])
       /\ lock' = NoLock => pc'[lock] \notin {"acq_check", "re_deduct"}
  /\ (lock = NoLock /\ lock' = NoLock) =>
       (tokens' = tokens /\ last_refill' = last_refill /\ grants' = grants)

C20_NoLockWhileAsleep ==
  \A t \in Threads :
    /\ Sleeping(t) => lock # t
    /\ pc[t] = "acq_sleep" =>
         \A u \in Threads \ {t} :
           /\ lock = u => pc[u] \in {"acq_check", "re_deduct"}
           /\ (lock = NoLock /\ pc[u] = "idle" /\ budget < MaxAcquires) =>
                ENABLED Call(u, 1, FALSE)
           /\ (pc[u] = "acq_check" /\ Enough(tokens, req[u].tokens)) => ENABLED Grant(u)

\* while one caller sleeps for a request the balance did not cover, another
\* caller has found the same balance, which covered its smaller request,
\* and has returned True before the sleeper's wake time
C20_Witness ==
  \E t \in Threads : \E u \in Threads \ {t} :
    /\ pc[t] = "acq_sleep"
    /\ now < wake[t]
    /\ lock = NoLock
    /\ pc[u] = "idle"
    /\ ret[u].result = "True"
    /\ ~ret[u].slept
    /\ ret[u].found = ret[t].found
    /\ ret[u].found > 0

(***************************************************************************)
(* What changes the balance                                                *)
(***************************************************************************)

\* the step opens a lock-protected block, which starts with _refill
C21_RefillStep == lock = NoLock /\ lock' # NoLock

\* C21: the balance changes in two ways only: a refill never decreases
\* tokens, and tokens decrease only by the requested amount of an acquire
\* that returns True; an acquire that fails with RateLimitError leaves
\* tokens exactly at the refilled balance and deducts nothing.
C21_BalanceFrame ==
  [][/\ C21_RefillStep => tokens' >= tokens
     /\ tokens' > tokens => C21_RefillStep
     /\ tokens' < tokens =>
          \E t \in Threads :
            /\ lock = t
            /\ tokens' = tokens - Unit(req[t].tokens)
            /\ ret[t].result = "none"
            /\ ret'[t].result = "True"
            /\ ~Acquiring(t)'
     /\ \A t \in Threads :
          (ret[t].result = "none" /\ ret'[t].result = "RateLimitError") =>
            /\ lock = t
            /\ tokens' = tokens
            /\ tokens = rf.after
            /\ ret'[t].left = rf.after
            /\ grants' = grants]_vars

\* a non-blocking acquire has failed on a balance that a refill had raised
\* after an earlier grant
C21_Witness ==
  \E t \in Threads :
    /\ pc[t] = "idle"
    /\ ret[t].result = "RateLimitError"
    /\ rf.dt > 0
    /\ rf.after > rf.prev - Unit(1)
    /\ rf.spent
    /\ tokens = rf.after
    /\ tokens > 0

(***************************************************************************)
(* Determinism of a run                                                    *)
(***************************************************************************)

\* the sleeps of a run with retry ceiling R whose operation has had the
\* outcomes q so far: one after each transient failure but the (R+1)-th
C22_Retried(R, q) ==
  IF q = <<>> THEN 0
  ELSE IF q[Len(q)] \in TransientErrors THEN Min(Len(q), R)
  ELSE Len(q) - 1

\* the terminal outcome those outcomes give, "none" while the run goes on
C22_Outcome(R, q) ==
  IF q = <<>> THEN "none"
  ELSE IF q[Len(q)] = "ok" THEN "Success"
  ELSE IF q[Len(q)] \notin TransientErrors THEN "Unexpected"
  ELSE IF Len(q) = R + 1 THEN "Exhausted"
  ELSE "none"

\* C22: two runs given the same retry ceiling and the same sequence of
\* operation outcomes make the same number of attempts, sleep the same
\* durations in the same order and end in the same terminal outcome; the
\* total backoff of a run that retried f times is exactly 2^f - 1 seconds,
\* whatever the state of the token bucket or any other input.
C22_Deterministic ==
  /\ \A t \in Runners :
       /\ run[t].outcome = C22_Outcome(run[t].retries, run[t].trace)
       /\ run[t].invoked = Len(run[t].trace)
       /\ Len(run[t].sleeps) = C22_Retried(run[t].retries, run[t].trace)
       /\ \A i \in 1..Len(run[t].sleeps) : run[t].sleeps[i] = 2^(i - 1)
       /\ SumSeq(run[t].sleeps) = 2^Len(run[t].sleeps) - 1
  /\ \A t \in Runners : \A u \in Runners :
       (run[t].retries = run[u].retries /\ run[t].trace = run[u].trace) =>
         /\ run[t].invoked = run[u].invoked
         /\ run[t].sleeps = run[u].sleeps
         /\ run[t].outcome = run[u].outcome

\* two finished runs with the same ceiling and the same outcomes, one
\* retry each; one of them had to sleep for a permit and the other had not
C22_Witness ==
  \E t \in Threads : \E u \in Threads \ {t} :
    /\ RunOver(t) /\ RunOver(u)
    /\ run[t].retries = run[u].retries
    /\ run[t].trace = <<"RequestError", "RequestException">>
    /\ run[u].trace = run[t].trace
    /\ run[t].sleeps = <<1>>
    /\ ret[t].slept
    /\ ~ret[u].slept

(***************************************************************************)
(* Termination of a run                                                    *)
(***************************************************************************)

\* every call of the operation returns or raises, and every backoff sleep
\* returns
FairnessRun ==
  \A t \in Threads :
    /\ WF_vars(\E out \in Outcomes : Invoke(t, out))
    /\ WF_vars(NextAttempt(t))

SpecRun == Init /\ [][NextLive]_vars /\ Fairness /\ FairnessRun

\* C23: every run of _retry_with_backoff terminates: for any retry ceiling
\* and any sequence of operation outcomes, each operation call and each
\* sleep itself returning, the run reaches a terminal outcome after
\* finitely many attempts.
C23_RunTerminates ==
  /\ \A t \in Threads :
       run[t].active ~>
         (RunOver(t) /\ run[t].outcome \in {"Success", "Unexpected", "Exhausted"})
  /\ [](\A t \in Runners :
          /\ run[t].attempt <= run[t].retries
          /\ run[t].invoked <= run[t].retries + 1)

\* a run has ended after using up a ceiling of two retries, its last
\* acquire having slept
C23_Witness ==
  \E t \in Threads :
    /\ RunOver(t)
    /\ run[t].retries = 2
    /\ run[t].invoked = 3
    /\ run[t].outcome = "Exhausted"
    /\ ret[t].slept

\* an __exit__ that gives the permit back
ExitReleases(tok) == Min(max_tokens, tok + Unit(1))

\* __exit__(self, *args): pass
ExitTokens(tok) == tok

\* __enter__: self.acquire() with acquire's defaults, then return self
WithEnter(t) ==
  /\ pc[t] = "idle"
  /\ budget + 1 <= MaxAcquires
  /\ budget' = budget + 1
  /\ ctx' = [ctx EXCEPT ![t] = [phase |-> "enter", raised |-> FALSE]]
  /\ req' = [req EXCEPT ![t] = AcquireDefaults]
  /\ ret' = [ret EXCEPT ![t] = NoRet]
  /\ Entered(t)
  /\ pc' = [pc EXCEPT ![t] = "acq_check"]
  /\ UNCHANGED <<calls_per_minute, now, wake, calls, grants, run, op, dec, rbac>>

\* the body of the with statement ends, normally or by raising
WithBody(t, raised) ==
  /\ pc[t] = "with_body"
  /\ ctx' = [ctx EXCEPT ![t] = [phase |-> "body", raised |-> raised]]
  /\ pc' = [pc EXCEPT ![t] = "with_exit"]
  /\ UNCHANGED <<calls_per_minute, tokens, last_refill, lock, now, req, wake, ret,
                 calls, budget, grants, rf, run, op, dec, rbac>>

\* __exit__ returns None: an exception of the body goes on to the caller
WithExit(t) ==
  /\ pc[t] = "with_exit"
  /\ tokens' = ExitTokens(tokens)
  /\ ctx' = [ctx EXCEPT ![t].phase = "done"]
  /\ pc' = [pc EXCEPT ![t] = "idle"]
  /\ UNCHANGED <<calls_per_minute, last_refill, lock, now, req, wake, ret,
                 calls, budget, grants, rf, run, op, dec, rbac>>

\* with statements on the limiter, next to direct acquire calls
NextWith ==
  \/ \E t \in Threads : WithEnter(t)
  \/ \E t \in Threads, raised \in BOOLEAN : WithBody(t, raised)
  \/ \E t \in Threads : WithExit(t)
  \/ \E t \in Threads, n \in 1..MaxReq, b \in BOOLEAN : Call(t, n, b)
  \/ \E t \in Threads : Grant(t)
  \/ \E t \in Threads : Reject(t)
  \/ \E t \in Threads : Wait(t)
  \/ \E t \in Threads : Reenter(t)
  \/ \E t \in Threads : DeductAfterSleep(t)
  \/ Tick
  \/ \E t \in Threads : Elapse(t)

SpecWith == Init /\ [][NextWith]_vars

\* C24: a with statement on the limiter enters through acquire's defaults
\* (one permit, blocking), its body starts at the step that deducts exactly
\* one permit and at no other, no earlier step of the entry takes anything from
\* the balance, and __exit__ leaves tokens and last_refill as they are,
\* whether or not the body raised.
C24_Step(t) ==
  /\ (ctx[t].phase # "enter" /\ ctx'[t].phase = "enter")
       => (req'[t] = AcquireDefaults /\ pc'[t] = "acq_check")
  /\ (pc[t] # "with_body" /\ pc'[t] = "with_body")
       => (/\ ctx[t].phase = "enter"
           /\ tokens' = tokens - Unit(1)
           /\ ret'[t].result = "True")
  /\ (ctx[t].phase = "enter" /\ lock = t /\ pc'[t] # "with_body")
       => tokens' = tokens
  /\ (ctx[t].phase = "enter" /\ pc[t] = "with_body") => pc'[t] \in {"with_body", "with_exit"}
  /\ (pc[t] = "with_exit" /\ pc'[t] # "with_exit")
       => (/\ tokens' = tokens
           /\ last_refill' = last_refill
           /\ ctx'[t].raised = ctx[t].raised
           /\ pc'[t] = "idle")

C24_OnePermitOnEntry == [][\A t \in Threads : C24_Step(t)]_vars

\* two with statements are over, one that had to wait for its permit and
\* whose body raised, one whose body did not raise
C24_Witness ==
  \E t \in Threads : \E u \in Threads \ {t} :
    /\ ctx[t].phase = "done" /\ ctx[t].raised /\ ret[t].slept
    /\ ctx[u].phase = "done" /\ ~ctx[u].raised
\* the operations of NetBoxClient that take an endpoint name
Kinds == {"get", "create", "bulk_create", "update", "delete"}

\* update and delete fetch the object, then save or delete it
TwoPhase == {"update", "delete"}

\* raise NetBoxAPIError(f"Invalid endpoint: {endpoint}")
InvalidEndpoint == "NetBoxAPIError: Invalid endpoint"

\* a lookup that is put off until the request is made
ResolvedLater(valid) == TRUE

\* endpoint_obj = getattr(self._client, endpoint), the first statement of
\* the try block: it succeeds if the client has the attribute
Resolved(valid) == valid

\* a second phase that is given what the first left of the budget
PhaseArgShared(done) == config_max_retries - SumSeq([i \in DOMAIN done |-> done[i].invoked - 1])

\* self._retry_with_backoff(...) is called without max_retries
PhaseArg(done) == None

\* what a finished _retry_with_backoff call leaves behind
PhaseOf(r) == [retries |-> r.retries, invoked |-> r.invoked, acquired |-> r.acquired,
               consumed |-> r.consumed, sleeps |-> r.sleeps, outcome |-> r.outcome]

\* a caller calls get, create, bulk_create, update or delete with an endpoint
\* name the client has (valid) or lacks
OpCall(t, kind, valid) ==
  /\ pc[t] = "idle"
  /\ \A u \in Threads : op[u].phase = 0
  /\ IF Resolved(valid)
     THEN /\ budget + Retries(PhaseArg(<<>>)) + 1 <= MaxClientAcquires
          /\ budget' = budget + Retries(PhaseArg(<<>>)) + 1
          /\ op' = [op EXCEPT ![t] = [NoOp EXCEPT !.kind = kind, !.valid = valid, !.phase = 1]]
          /\ RunBegin(t, PhaseArg(<<>>))
     ELSE /\ op' = [op EXCEPT ![t] = [NoOp EXCEPT !.kind = kind, !.valid = valid,
                                                  !.result = InvalidEndpoint]]
          /\ UNCHANGED <<tokens, last_refill, lock, pc, req, ret, budget, rf, run>>
  /\ UNCHANGED <<calls_per_minute, now, wake, calls, grants, ctx, dec, rbac>>

\* _retry_with_backoff has returned or raised inside the operation's try
\* block.  NetBoxAPIError is not an AttributeError and leaves the operation;
\* a fetch that returned None makes setattr, obj.save or obj.delete raise
\* AttributeError, which the except clause reports as an invalid endpoint
OpReturn(t, fetched) ==
  /\ pc[t] = "op_return"
  /\ LET done == Append(op[t].phases, PhaseOf(run[t])) IN
     IF run[t].outcome # "Success"
     THEN /\ op' = [op EXCEPT ![t] = [@ EXCEPT !.phase = 0, !.phases = done,
                                               !.result = run[t].raised]]
          /\ pc' = [pc EXCEPT ![t] = "idle"]
          /\ UNCHANGED <<tokens, last_refill, lock, req, ret, budget, rf, run>>
     ELSE IF op[t].kind \notin TwoPhase \/ op[t].phase = 2
     THEN /\ op' = [op EXCEPT ![t] = [@ EXCEPT !.phase = 0, !.phases = done,
                                               !.result = "returned"]]
          /\ pc' = [pc EXCEPT ![t] = "idle"]
          /\ UNCHANGED <<tokens, last_refill, lock, req, ret, budget, rf, run>>
     ELSE IF fetched = "None"
     THEN /\ op' = [op EXCEPT ![t] = [@ EXCEPT !.phase = 0, !.phases = done,
                                               !.fetched = fetched,
                                               !.result = InvalidEndpoint]]
          /\ pc' = [pc EXCEPT ![t] = "idle"]
          /\ UNCHANGED <<tokens, last_refill, lock, req, ret, budget, rf, run>>
     ELSE /\ budget + Max(Retries(PhaseArg(done)) + 1, 0) <= MaxClientAcquires
          /\ budget' = budget + Max(Retries(PhaseArg(done)) + 1, 0)
          /\ op' = [op EXCEPT ![t] = [@ EXCEPT !.phase = 2, !.phases = done,
                                               !.fetched = fetched]]
          /\ RunBegin(t, PhaseArg(done))
  /\ UNCHANGED <<calls_per_minute, now, wake, calls, grants, ctx, dec, rbac>>

\* the operations of one NetBoxClient, called one at a time; the clock moves
\* only to the moments sleepers wake
NextClient ==
  \/ \E t \in Threads, kind \in Kinds, valid \in BOOLEAN : OpCall(t, kind, valid)
  \/ \E t \in Threads, fetched \in {"obj", "None"} : OpReturn(t, fetched)
  \/ \E t \in Threads : Grant(t)
  \/ \E t \in Threads : Wait(t)
  \/ \E t \in Threads : Reenter(t)
  \/ \E t \in Threads : DeductAfterSleep(t)
  \/ \E t \in Threads, out \in Outcomes : Invoke(t, out)
  \/ \E t \in Threads : NextAttempt(t)
  \/ \E t \in Threads : Elapse(t)

SpecClient == Init /\ [][NextClient]_vars

\* C25: an operation called with an endpoint name the client lacks ends at
\* once with NetBoxAPIError('Invalid endpoint: ...'): the step that reports
\* it starts no _retry_with_backoff call, takes nothing from the balance,
\* grants nothing and sets no wake-up time, and this for each of get, create,
\* bulk_create, update and delete.
C25_Step(t) ==
  (op'[t] # op[t] /\ ~op'[t].valid)
    => /\ op[t].phase = 0
       /\ op'[t].result = InvalidEndpoint
       /\ op'[t].phase = 0
       /\ op'[t].phases = <<>>
       /\ UNCHANGED <<tokens, last_refill, lock, pc, req, ret, wake, budget, grants, rf, run, now>>

C25_InvalidEndpointFailsFirst == [][\A t \in Threads : C25_Step(t)]_vars

\* an update with an endpoint name the client lacks has been refused, on a
\* limiter no one has drawn from
C25_Witness ==
  \E t \in Threads :
    /\ op[t].kind = "update" /\ ~op[t].valid /\ op[t].result = InvalidEndpoint
    /\ grants = <<>> /\ tokens = max_tokens /\ run[t] = NoRun
\* the remote invocations an operation has made so far
OpInvoked(t) ==
  SumSeq([i \in DOMAIN op[t].phases |-> op[t].phases[i].invoked])
    + (IF op[t].phase > 0 THEN run[t].invoked ELSE 0)

\* the balance an operation has taken so far
OpConsumed(t) ==
  SumSeq([i \in DOMAIN op[t].phases |-> op[t].phases[i].consumed])
    + (IF op[t].phase > 0 THEN run[t].consumed ELSE 0)

\* the permits an operation has been granted so far
OpAcquired(t) ==
  SumSeq([i \in DOMAIN op[t].phases |-> op[t].phases[i].acquired])
    + (IF op[t].phase > 0 THEN run[t].acquired ELSE 0)

\* C28: update and delete make at most two _retry_with_backoff calls, the
\* fetch first; the second is started only after the fetch returned an
\* object, each is given the ceiling config.max_retries and so makes at most
\* max_retries + 1 invocations, the operation makes at most
\* 2 * (max_retries + 1), and each invocation has taken exactly one permit.
C28_TwoPhases ==
  \A t \in Threads :
    op[t].kind \in TwoPhase =>
      /\ Len(op[t].phases) <= 2
      /\ op[t].phase \in {0, 1, 2}
      /\ op[t].phase = 1 => op[t].phases = <<>>
      /\ (op[t].phase = 2 \/ Len(op[t].phases) = 2)
           => (op[t].phases[1].outcome = "Success" /\ op[t].fetched = "obj")
      /\ op[t].phase = 2 => Len(op[t].phases) = 1
      /\ \A i \in DOMAIN op[t].phases :
           /\ op[t].phases[i].retries = config_max_retries
           /\ op[t].phases[i].invoked <= config_max_retries + 1
           /\ op[t].phases[i].invoked >= 1
      /\ (op[t].phase > 0 /\ run[t].active)
           => (run[t].retries = config_max_retries /\ run[t].attempt <= config_max_retries)
      /\ OpInvoked(t) <= 2 * (config_max_retries + 1)
      /\ OpConsumed(t) = Unit(OpAcquired(t))
      /\ OpAcquired(t) - OpInvoked(t) \in {0, 1}
      /\ op[t].phase = 0 => OpAcquired(t) = OpInvoked(t)

\* a delete has used both budgets to the end: the fetch succeeded at its
\* last attempt and the deletion failed max_retries + 1 times
C28_Witness ==
  \E t \in Threads :
    /\ op[t].kind = "delete" /\ op[t].phase = 0 /\ Len(op[t].phases) = 2
    /\ op[t].phases[1].invoked = config_max_retries + 1
    /\ op[t].phases[2].invoked = config_max_retries + 1
    /\ op[t].phases[2].outcome = "Exhausted"
    /\ OpInvoked(t) = 2 * (config_max_retries + 1)
    /\ OpConsumed(t) = Unit(2 * (config_max_retries + 1))
\* callers that may pass any integer from MinRetries up as max_retries: the
\* parameter is declared int | None and is not validated
NextArg ==
  \/ \E t \in Threads, n \in 1..MaxReq, b \in BOOLEAN :
       Call(t, n, b) /\ budget' <= LiveAcquires
  \/ \E t \in Threads, arg \in {None} \cup (MinRetries..MaxRetries) :
       RunStart(t, arg) /\ budget' <= LiveAcquires
  \/ \E t \in Threads : Grant(t)
  \/ \E t \in Threads : Reject(t)
  \/ \E t \in Threads : Wait(t)
  \/ \E t \in Threads : Reenter(t)
  \/ \E t \in Threads : DeductAfterSleep(t)
  \/ \E t \in Threads, out \in Outcomes : Invoke(t, out)
  \/ \E t \in Threads : NextAttempt(t)
  \/ \E t \in Threads : Elapse(t)
  \/ Tick

SpecArg == Init /\ [][NextArg]_vars

\* C26: a _retry_with_backoff call that has reported a failure has invoked
\* the operation at least once, whatever max_retries it was given; with
\* max_retries = 0 it has invoked it exactly once and has not slept.
C26_InvokedBeforeFailure ==
  \A t \in Threads :
    /\ run[t].raised # "None" => run[t].invoked >= 1
    /\ (RunOver(t) /\ run[t] # NoRun /\ run[t].arg = 0)
         => (run[t].invoked = 1 /\ run[t].sleeps = <<>> /\ run[t].retries = 0)
\* C27: at every moment the tokens granted since construction are at most
\* max_tokens + refill_rate * (time since construction), in sixtieths.
C27_GrantedWithinSupply ==
  Unit(SumOver(grants, DOMAIN grants)) <= max_tokens + refill_rate * now
\* the functions that may be wrapped
Funcs == 1..NumFuncs

\* one limiter for the whole module, whichever rate_limit call made the decorator
LimiterShared(d) == 1

\* the `limiter` a wrapper refers to is the local of the rate_limit call
\* that made its decorator
Limiter(d) == d

\* rate_limit(calls_per_minute): limiter = RateLimiter(calls_per_minute=...),
\* once per call of rate_limit
RateLimit ==
  /\ Len(dec.limiters) < MaxLimiters
  /\ dec' = [dec EXCEPT !.limiters = Append(@, [tokens |-> max_tokens, last_refill |-> now])]
  /\ UNCHANGED <<calls_per_minute, tokens, last_refill, lock, now, pc, req, wake, ret,
                 calls, budget, grants, rf, run, ctx, op, rbac>>

\* decorator(func): the decorator made by the d-th rate_limit call wraps f
Decorate(d, f) ==
  /\ d \in DOMAIN dec.limiters
  /\ f \notin DOMAIN dec.wrapped
  /\ dec' = [dec EXCEPT !.wrapped = @ @@ (f :> d)]
  /\ UNCHANGED <<calls_per_minute, tokens, last_refill, lock, now, pc, req, wake, ret,
                 calls, budget, grants, rf, run, ctx, op, rbac>>

\* wrapper(*args, **kwargs): limiter.acquire() runs its first block: refill,
\* then either deduct one token and go on to func, or release the lock and
\* sleep for the wait time
WrapperCall(t, f) ==
  /\ dec.th[t].pc = "idle"
  /\ dec.th[t].calls < MaxWrapperCalls
  /\ f \in DOMAIN dec.wrapped
  /\ LET l == Limiter(dec.wrapped[f])
         tok == Refilled(dec.limiters[l].tokens, now - dec.limiters[l].last_refill) IN
     IF Enough(tok, AcquireDefaults.tokens)
     THEN dec' = [dec EXCEPT
                    !.limiters[l] = [tokens |-> Deduct(tok, AcquireDefaults.tokens),
                                     last_refill |-> now],
                    !.th[t] = [@ EXCEPT !.pc = "func", !.fn = f, !.calls = @ + 1,
                                        !.raised = FALSE]]
     ELSE dec' = [dec EXCEPT
                    !.limiters[l] = [tokens |-> tok, last_refill |-> now],
                    !.th[t] = [@ EXCEPT !.pc = "sleep", !.fn = f, !.calls = @ + 1,
                                        !.raised = FALSE,
                                        !.wake = now + WaitTime(AcquireDefaults.tokens, tok)]]
  /\ UNCHANGED <<calls_per_minute, tokens, last_refill, lock, now, pc, req, wake, ret,
                 calls, budget, grants, rf, run, ctx, op, rbac>>

\* time.sleep(wait_time) returns and acquire runs its second block: refill,
\* deduct, return True
WrapperWake(t) ==
  /\ dec.th[t].pc = "sleep"
  /\ now >= dec.th[t].wake
  /\ LET l == Limiter(dec.wrapped[dec.th[t].fn])
         tok == Refilled(dec.limiters[l].tokens, now - dec.limiters[l].last_refill) IN
     dec' = [dec EXCEPT
               !.limiters[l] = [tokens |-> Deduct(tok, AcquireDefaults.tokens),
                                last_refill |-> now],
               !.th[t] = [@ EXCEPT !.pc = "func", !.wake = 0]]
  /\ UNCHANGED <<calls_per_minute, tokens, last_refill, lock, now, pc, req, wake, ret,
                 calls, budget, grants, rf, run, ctx, op, rbac>>

\* return func(*args, **kwargs): the wrapped function returns or raises
WrappedRuns(t, raised) ==
  /\ dec.th[t].pc = "func"
  /\ dec' = [dec EXCEPT !.th[t] = [@ EXCEPT !.pc = "idle", !.raised = raised]]
  /\ UNCHANGED <<calls_per_minute, tokens, last_refill, lock, now, pc, req, wake, ret,
                 calls, budget, grants, rf, run, ctx, op, rbac>>

\* the clock moves on to the moment a sleeping wrapper may wake
WrapperElapse(t) ==
  /\ dec.th[t].pc = "sleep"
  /\ dec.th[t].wake > now
  /\ now' = dec.th[t].wake
  /\ UNCHANGED <<calls_per_minute, tokens, last_refill, lock, pc, req, wake, ret,
                 calls, budget, grants, rf, run, others>>

\* modules that decorate functions with rate_limit and call them
NextDec ==
  \/ RateLimit
  \/ \E d \in 1..MaxLimiters, f \in Funcs : Decorate(d, f)
  \/ \E t \in Threads, f \in Funcs : WrapperCall(t, f)
  \/ \E t \in Threads : WrapperWake(t)
  \/ \E t \in Threads, raised \in BOOLEAN : WrappedRuns(t, raised)
  \/ \E t \in Threads : WrapperElapse(t)
  \/ Tick

SpecDec == Init /\ [][NextDec]_vars

\* the limiters other than l are left as they are
C29_OthersKept(l) ==
  \A k \in DOMAIN dec.limiters : k # l => dec'.limiters[k] = dec.limiters[k]

\* C29: a call of a wrapped function works on the limiter of the rate_limit
\* call that made its decorator and on no other, so functions wrapped by the
\* same decorator draw from one bucket and decorators of separate rate_limit
\* calls from separate ones; the function runs only after a step that
\* deducts exactly one token from that bucket, a caller that has to wait
\* deducts nothing before, and the function's return or raise gives nothing
\* back.
C29_Step(t) ==
  LET f == dec'.th[t].fn
      l == dec.wrapped[f]
      refilled == Refilled(dec.limiters[l].tokens, now - dec.limiters[l].last_refill) IN
  /\ (dec.th[t].pc = "idle" /\ dec'.th[t].pc # "idle")
       => /\ dec'.th[t].pc \in {"sleep", "func"}
          /\ C29_OthersKept(l)
          /\ dec'.th[t].pc = "sleep"
               => (dec'.limiters[l].tokens = refilled /\ refilled < Unit(1))
  /\ (dec.th[t].pc # "func" /\ dec'.th[t].pc = "func")
       => /\ dec'.limiters[l].tokens = refilled - Unit(1)
          /\ C29_OthersKept(l)
  /\ (dec.th[t].pc = "sleep" /\ dec'.th[t].pc # "sleep") => dec'.th[t].pc = "func"
  /\ (dec.th[t].pc = "func" /\ dec'.th[t].pc # "func")
       => (dec'.th[t].pc = "idle" /\ dec'.limiters = dec.limiters)

C29_SharedPerDecorator == [][\A t \in Threads : C29_Step(t)]_vars

\* at the start, with a capacity of two: two functions wrapped by the first
\* decorator have been called once each, one of them raised, and their
\* bucket is empty, while the bucket of the second decorator, which wraps a
\* third function, is still full
C29_Witness ==
  /\ now = 0 /\ calls_per_minute = 2 /\ Len(dec.limiters) = 2
  /\ DOMAIN dec.wrapped = Funcs
  /\ dec.wrapped[1] = 1 /\ dec.wrapped[2] = 1 /\ dec.wrapped[3] = 2
  /\ dec.th[1] = [NoWrapped EXCEPT !.fn = 1, !.calls = 1, !.raised = TRUE]
  /\ dec.th[2] = [NoWrapped EXCEPT !.fn = 2, !.calls = 1]
  /\ dec.limiters[1].tokens = 0
  /\ dec.limiters[2].tokens = max_tokens
\* the active roles that may be assigned
Roles == {"admin"}

\* the active permissions a role carries
RolePermissions(r) == IF r = "admin" THEN {"read", "write"} ELSE {"read"}

\* what is read of a user: get_user_roles, get_user_permissions
ReadKinds == {"user_roles", "user_permissions"}

\* cache_key = f"user_roles:{user_id}" and f"user_permissions:{user_id}"
CacheKey(kind, u) == <<kind, u>>

\* MemcachedClient._make_key: f"{namespace}:{sha256(key).hexdigest()}", the
\* key cache_get and cache_set use on the memcached server
WrapperKey(k) == <<"app", "sha256", k>>

\* the key django.core.cache.cache.delete uses: KEY_PREFIX:VERSION:key with
\* KEY_PREFIX 'app' and VERSION 1
DjangoKey(k) == <<"app", "1", k>>

\* the store without the entry of key k, if it has one
Without(store, k) == [j \in DOMAIN store \ {k} |-> store[j]]

\* the store with value v under key k
With(store, k, v) == [j \in DOMAIN store \cup {k} |-> IF j = k THEN v ELSE store[j]]

\* _clear_user_cache: cache.delete(key) for the two keys of the user, on
\* Django's default cache
Cleared(store, u) ==
  Without(Without(store, DjangoKey(CacheKey("user_permissions", u))),
          DjangoKey(CacheKey("user_roles", u)))

\* what the database holds for a user: the names of the roles, or the names
\* of the permissions of those roles
Stored(kind, held) ==
  IF kind = "user_roles" THEN held ELSE UNION {RolePermissions(r) : r \in held}

\* the reads still to come that are the first of their kind after a write
\* changed the user's roles
Pending(u) == {<<kind, u>> : kind \in ReadKinds}

\* assign_role: the role is appended, the session committed and the user's
\* cache cleared; a user who has the role already is left alone.  Returns True.
AssignRole(u, r) ==
  /\ rbac' = IF r \in rbac.roles[u] THEN rbac
             ELSE [rbac EXCEPT !.roles[u] = @ \cup {r},
                               !.store = Cleared(@, u),
                               !.pending = @ \cup Pending(u)]
  /\ UNCHANGED <<calls_per_minute, tokens, last_refill, lock, now, pc, req, wake, ret,
                 calls, budget, grants, rf, run, ctx, op, dec>>

\* revoke_role: the role is removed, the session committed and the user's
\* cache cleared; a user who lacks the role is left alone.  Returns True.
RevokeRole(u, r) ==
  /\ rbac' = IF r \notin rbac.roles[u] THEN rbac
             ELSE [rbac EXCEPT !.roles[u] = @ \ {r},
                               !.store = Cleared(@, u),
                               !.pending = @ \cup Pending(u)]
  /\ UNCHANGED <<calls_per_minute, tokens, last_refill, lock, now, pc, req, wake, ret,
                 calls, budget, grants, rf, run, ctx, op, dec>>

\* get_user_roles / get_user_permissions (has_role and has_permission test
\* membership in what these return): with use_cache the entry cache_get
\* finds is returned; otherwise the database is read and, with use_cache,
\* the result is stored with cache_set
GetUser(kind, u, use_cache) ==
  LET k == WrapperKey(CacheKey(kind, u))
      truth == Stored(kind, rbac.roles[u])
      hit == use_cache /\ k \in DOMAIN rbac.store
      value == IF hit THEN rbac.store[k] ELSE truth IN
  /\ rbac' = [rbac EXCEPT
               !.store = IF use_cache /\ ~hit THEN With(@, k, value) ELSE @,
               !.pending = IF use_cache THEN @ \ {<<kind, u>>} ELSE @,
               !.last = [kind |-> kind, user |-> u, use_cache |-> use_cache,
                         cached |-> hit, pending |-> use_cache /\ <<kind, u>> \in rbac.pending,
                         value |-> value, truth |-> truth]]
  /\ UNCHANGED <<calls_per_minute, tokens, last_refill, lock, now, pc, req, wake, ret,
                 calls, budget, grants, rf, run, ctx, op, dec>>

\* an entry reaches its cache_timeout, or the server evicts it
Expire(k) ==
  /\ k \in DOMAIN rbac.store
  /\ rbac' = [rbac EXCEPT !.store = Without(@, k)]
  /\ UNCHANGED <<calls_per_minute, tokens, last_refill, lock, now, pc, req, wake, ret,
                 calls, budget, grants, rf, run, ctx, op, dec>>

\* one RBACManager used by one caller at a time
NextRBAC ==
  \/ \E u \in Users, r \in Roles : AssignRole(u, r)
  \/ \E u \in Users, r \in Roles : RevokeRole(u, r)
  \/ \E kind \in ReadKinds, u \in Users, use_cache \in BOOLEAN : GetUser(kind, u, use_cache)
  \/ \E k \in DOMAIN rbac.store : Expire(k)

SpecRBAC == Init /\ [][NextRBAC]_vars

\* C30: the first read with use_cache=True of a user's roles or permissions
\* after assign_role or revoke_role changed that user's roles returns what
\* the database holds at that moment.
C30_NextReadReflectsWrite ==
  rbac.last.pending => rbac.last.value = rbac.last.truth
====
